---- MODULE Spec2Model ----
(***************************************************************************)
(* Root finding toolkit: the class based solvers of                        *)
(* root_finding_problem/root_finding_methods.py.                           *)
(*                                                                         *)
(* Numbers.  Python floats are modelled as exact rationals <<n, d>> with   *)
(* d > 0 and gcd(n, d) = 1.  The studied function f_x is a polynomial      *)
(* given by its coefficients <<c0, c1, ...>> (lowest degree first), as     *)
(* numpy's Polynomial in main2.py.  Its values are taken as Python numbers, *)
(* so that a division by a zero value raises ZeroDivisionError.            *)
(*                                                                         *)
(* One solver instance is alive at a time.  pc is its position:            *)
(*   "new"      no instance has been constructed                           *)
(*   "ready"    the constructor returned, no solve() is running            *)
(*   "loop"     solve() is inside its for loop                             *)
(*   "returned" the last solve() returned (result holds what it returned)  *)
(*   "raised"   the constructor or the last solve() raised (raised holds   *)
(*              the exception class)                                       *)
(***************************************************************************)
EXTENDS Integers, Sequences, FiniteSets, TLC

VARIABLES
    pc,                 \* position of the instance, see above
    cls,                \* class of the instance
    f_x,                \* studied function (polynomial coefficients)
    df_x,               \* Newton: derivative handle (polynomial coefficients)
    nb_iteration,       \* IterativeAlgorithm.nb_iteration
    tolerance,          \* IterativeAlgorithm.tolerance
    number_of_division, \* DividingSearchSolverClass.number_of_division
    a_n,                \* DividingSearchSolverClass.a_n
    b_n,                \* DividingSearchSolverClass.b_n
    p_0,                \* FixedPointSolverClass.p_0
    iteration_number,   \* local of solve()
    best_c_n,           \* local of DividingSearchSolverClass.solve()
    p_n,                \* local of FixedPointSolverClass.solve()
    c_n,                \* sample points of the last iteration of the dividing search
    bracket_0,          \* <<a_n, b_n>> when the last call or loop pass of the dividing search began
    result,             \* what the last solve() returned: <<history, iteration count>>
    raised,             \* exception class that reached the caller, "none" if none
    error_code,         \* IntervalError's error_code, 0 if none
    exit_by,            \* how the last solve() left its loop
    g_calls,            \* number of evaluations of the update rule by the instance
    solves,             \* number of solve() calls made on the instance
    given,              \* <<a_n, b_n>> as the constructor of the instance received them
    previous,           \* what an earlier instance built from the same arguments did
    call                \* arguments and outcomes of the calls of the function based solvers

vars == <<pc, cls, f_x, df_x, nb_iteration, tolerance, number_of_division, a_n, b_n,
          p_0, iteration_number, best_c_n, p_n, c_n, bracket_0, result, raised,
          error_code, exit_by, g_calls, solves, given, previous, call>>

(***************************************************************************)
(* Bounds of the model.                                                    *)
(***************************************************************************)
MaxIter == 4        \* nb_iteration ranges over 1..MaxIter
MaxDiv == 3         \* number_of_division ranges over 1..MaxDiv
MaxSolves == 2      \* solve() calls on one instance
MaxBound == 3       \* interval limits and seeds range over -1..MaxBound

(***************************************************************************)
(* Exact rational arithmetic (the float operations of the source).         *)
(***************************************************************************)
RECURSIVE GCD(_, _)
GCD(m, n) == IF n = 0 THEN m ELSE GCD(n, m % n)

IAbs(i) == IF i < 0 THEN -i ELSE i

Norm(n, d) ==
    LET s == IF d < 0 THEN -1 ELSE 1
        g == GCD(IAbs(n), IAbs(d))
    IN  <<(s * n) \div g, (s * d) \div g>>

R(i) == <<i, 1>>

\* Sums and comparisons go through the least common denominator and products
\* are reduced crosswise first, so that no intermediate value is larger than
\* the operation needs.
Scale(x, y) == y[2] \div GCD(x[2], y[2])

RAdd(x, y) ==
    Norm(x[1] * Scale(x, y) + y[1] * Scale(y, x), x[2] * Scale(x, y))
RSub(x, y) ==
    Norm(x[1] * Scale(x, y) - y[1] * Scale(y, x), x[2] * Scale(x, y))
RMul(x, y) ==
    LET u == Norm(x[1], y[2])
        v == Norm(y[1], x[2])
    IN  <<u[1] * v[1], u[2] * v[2]>>
RDiv(x, y) ==
    LET u == Norm(x[1], y[1])
        v == Norm(y[2], x[2])
    IN  Norm(u[1] * v[1], u[2] * v[2])
RAbs(x) == <<IAbs(x[1]), x[2]>>
RLt(x, y) == x[1] * Scale(x, y) < y[1] * Scale(y, x)
RLe(x, y) == x[1] * Scale(x, y) <= y[1] * Scale(y, x)
RIsZero(x) == x[1] = 0
Sign(x) == IF x[1] < 0 THEN -1 ELSE IF x[1] = 0 THEN 0 ELSE 1

\* f_x(x) for the polynomial with coefficients coef (Horner's rule).
RECURSIVE Horner(_, _, _)
Horner(coef, k, x) ==
    IF k = Len(coef) THEN R(coef[k])
    ELSE RAdd(R(coef[k]), RMul(x, Horner(coef, k + 1, x)))

\* The argument is evaluated once, before the polynomial is.
Eval(coef, x) == CHOOSE y \in { Horner(coef, 1, v) : v \in {x} } : TRUE

\* f(x) * f(y) compared with 0: only the sign of the product is used.
SignProduct(coef, x, y) == Sign(Eval(coef, x)) * Sign(Eval(coef, y))

(***************************************************************************)
(* Inputs of the model.                                                    *)
(***************************************************************************)
\* Studied functions handed to the bracketing solvers:
\*   x^2 + 1 (no root), x - 1, 1 - x, x^2 - 2, 2x^2 - 1,
\*   -(2x - 1)(2x - 3)(2x - 5) (three roots in [0, 3]).
BracketFunctions ==
    { <<1, 0, 1>>, <<-1, 1>>, <<1, -1>>, <<-2, 0, 1>>, <<-1, 0, 2>>,
      <<15, -46, 36, -8>> }

Limits == { R(i) : i \in -1..MaxBound }

Tolerances == { <<1, 1>>, <<2, 1>>, <<3, 1>> }

Iterations == 1..MaxIter

Divisions == 1..MaxDiv

BracketClasses ==
    { "DividingSearchSolverClass", "BisectionSolverClass", "TrisectionSolverClass" }

NoResult == [history |-> <<>>, iterations |-> -1]

NoRun == [done |-> FALSE]

NoCall == [made |-> FALSE]

Last(s) == s[Len(s)]

(***************************************************************************)
(* DividingSearchSolverClass                                               *)
(***************************************************************************)
\* The four error outcomes the solvers surface to the caller
ErrorOutcomes ==
    { "bracket_invalid", "multiple_roots", "zero_derivative", "zero_denominator" }

\* Every outcome raised as one and the same class
ErrorKindMerged(o) == "Exception"

\* The exception class the source raises for each error outcome:
\* IntervalError(a_n, b_n, 1), IntervalError(a_n, b_n, 2), and
\* ZeroDivisionError in the constructors of Newton, Secant and Regula Falsi
ErrorKind(o) ==
    IF o \in {"bracket_invalid", "multiple_roots"}
    THEN "IntervalError"
    ELSE "ZeroDivisionError"

\* number_of_division passed by the class to DividingSearchSolverClass.__init__
DivisionOf(c, nd) ==
    IF c = "BisectionSolverClass" THEN 2
    ELSE IF c = "TrisectionSolverClass" THEN 3
    ELSE nd

\* The test of the interval with only the case of two positive values kept
NoSignChangeBothPositive(f, a, b) ==
    Sign(Eval(f, a)) > 0 /\ Sign(Eval(f, b)) > 0

\* The test of the interval: f_x(a) * f_x(b) > 0
NoSignChange(f, a, b) == SignProduct(f, a, b) > 0

\* The tolerance test with abs() left out
WithinToleranceSigned(f, x, tol) == RLt(Eval(f, x), tol)

\* |f_x(x)| is within the tolerance
WithinTolerance(f, x, tol) == RLt(RAbs(Eval(f, x)), tol)

\* check_interval returning both limits when one of them is within the
\* tolerance
ImmediateRootBothLimits(f, a, b, tol) ==
    IF WithinTolerance(f, a, tol) \/ WithinTolerance(f, b, tol) THEN <<a, b>>
    ELSE <<>>

\* check_interval's return value once the interval passed the test
ImmediateRoot(f, a, b, tol) ==
    IF WithinTolerance(f, a, tol) THEN <<a>>
    ELSE IF WithinTolerance(f, b, tol) THEN <<b>>
    ELSE <<>>

\* Sample points that do not cut [a, b] into equal parts
SamplePointsUneven(a, b, nd) ==
    [k \in 1..(nd + 1) |->
        IF k = 1 THEN a
        ELSE IF k = nd + 1 THEN b
        ELSE RDiv(RAdd(RMul(R(nd - (k - 1)), a), RMul(R(k), b)), R(nd + 1))]

\* c_n: the number_of_division + 1 sample points of [a, b]
SamplePoints(a, b, nd) ==
    [k \in 1..(nd + 1) |->
        IF k = 1 THEN a
        ELSE IF k = nd + 1 THEN b
        ELSE RDiv(RAdd(RMul(R(nd - (k - 1)), a), RMul(R(k - 1), b)), R(nd))]

\* f_c_n: f_x at every sample point
SampleValues(f, pts) == [k \in 1..Len(pts) |-> Eval(f, pts[k])]

\* np.argmin: the first index holding the smallest value
ArgMin(vals) ==
    CHOOSE k \in 1..Len(vals) :
        /\ \A j \in 1..Len(vals) : RLe(vals[k], vals[j])
        /\ \A j \in 1..(k - 1) : ~RLe(vals[j], vals[k])

\* indices n of the adjacent pairs (c_n[n], c_n[n + 1]) kept in evol_array
SignChangeIndices(vals) ==
    { k \in 1..(Len(vals) - 1) : Sign(vals[k]) * Sign(vals[k + 1]) < 0 }

\* The test of len(evol_array) left out
TooManyPairsUnchecked(idx) == FALSE

\* len(evol_array) > 1
TooManyPairs(idx) == Cardinality(idx) > 1

\* solve() using up the count of passes it was configured with
ConfigurationConsumed ==
    /\ nb_iteration' = nb_iteration - 1
    /\ UNCHANGED <<cls, f_x, df_x, tolerance, number_of_division, p_0>>

\* solve() and check_interval assign none of the fields set by the
\* constructors, except the limits a_n and b_n
ConfigurationKept ==
    UNCHANGED <<cls, f_x, df_x, nb_iteration, tolerance, number_of_division, p_0>>

\* The new bracket keeping the lower limit of the old one
FirstPairFromLowerLimit(pts, idx) ==
    LET k == CHOOSE i \in idx : \A j \in idx : i <= j
    IN  <<pts[1], pts[k + 1]>>

\* The new bracket taken on the other side of the sign change
FirstPairRightOfChange(pts, idx) ==
    LET k == CHOOSE i \in idx : \A j \in idx : i <= j
    IN  <<pts[k + 1], pts[Len(pts)]>>

\* evol_array[0]: the leftmost sign changing pair
FirstPair(pts, idx) ==
    LET k == CHOOSE i \in idx : \A j \in idx : i <= j
    IN  <<pts[k], pts[k + 1]>>

\* DividingSearchSolverClass.__init__ (and the subclasses' __init__).  The
\* locals of an earlier solve() are left as they are: no constructor reads
\* them.
ConstructDividing(c, f, a, b, nd0, nb, tol) ==
    LET nd == DivisionOf(c, nd0) IN
    /\ cls' = c
    /\ f_x' = f
    /\ a_n' = a
    /\ b_n' = b
    /\ number_of_division' = nd
    /\ nb_iteration' = nb
    /\ tolerance' = tol
    /\ bracket_0' = <<a, b>>
    /\ given' = <<a, b>>
    /\ solves' = 0
    /\ g_calls' = 0
    /\ result' = NoResult
    /\ exit_by' = "none"
    /\ IF nd < 2
       THEN /\ pc' = "raised"
            /\ raised' = "Exception"
            /\ error_code' = 0
       ELSE IF NoSignChange(f, a, b)
       THEN /\ pc' = "raised"
            /\ raised' = ErrorKind("bracket_invalid")
            /\ error_code' = 1
       ELSE /\ pc' = "ready"
            /\ raised' = "none"
            /\ error_code' = 0
    /\ UNCHANGED <<df_x, p_0, iteration_number, best_c_n, p_n, c_n, call>>

IsBracketing == cls \in BracketClasses

\* DividingSearchSolverClass.solve up to the for loop: check_interval, the
\* return of an immediate root, and the return of a range(1, nb_iteration)
\* that is empty.
SolveDividing ==
    /\ IsBracketing
    /\ \/ pc \in {"ready", "returned"}
       \/ pc = "raised" /\ solves > 0
    /\ solves < MaxSolves
    /\ solves' = solves + 1
    /\ iteration_number' = 0
    /\ c_n' = <<>>
    /\ bracket_0' = <<a_n, b_n>>
    /\ IF NoSignChange(f_x, a_n, b_n)
       THEN /\ pc' = "raised"
            /\ raised' = ErrorKind("bracket_invalid")
            /\ error_code' = 1
            /\ best_c_n' = <<>>
            /\ result' = NoResult
            /\ exit_by' = "none"
       ELSE LET root == ImmediateRoot(f_x, a_n, b_n, tolerance) IN
            /\ raised' = "none"
            /\ error_code' = 0
            /\ best_c_n' = root
            /\ IF root # <<>>
               THEN /\ pc' = "returned"
                    /\ result' = [history |-> root, iterations |-> 0]
                    /\ exit_by' = "immediate"
               ELSE IF nb_iteration <= 1
               THEN /\ pc' = "returned"
                    /\ result' = [history |-> root, iterations |-> 0]
                    /\ exit_by' = "cap"
               ELSE /\ pc' = "loop"
                    /\ result' = NoResult
                    /\ exit_by' = "none"
    /\ ConfigurationKept
    /\ UNCHANGED <<a_n, b_n, p_n, g_calls, given, previous, call>>

\* The loop running through range(1, nb_iteration + 1)
RangeExhaustedInclusive(it, nb) == it = nb

\* The loop running through range(1, nb_iteration + 2)
RangeExhaustedLate(it, nb) == it = nb + 1

\* Pass it was the last of range(1, nb_iteration)
RangeExhausted(it, nb) == it = nb - 1

\* One pass through the body of the for loop of DividingSearchSolverClass.solve,
\* with the return that follows the loop when the pass is the last one.
\* The pass on sample points pts with values vals.
IterateDividingOn(pts, vals) ==
    LET it == iteration_number + 1
        best == Append(best_c_n, pts[ArgMin(vals)])
        idx == SignChangeIndices(vals)
    IN
    /\ iteration_number' = it
    /\ c_n' = pts
    /\ bracket_0' = <<a_n, b_n>>
    /\ best_c_n' = best
    /\ IF WithinTolerance(f_x, Last(best), tolerance)
       THEN \* break
            /\ pc' = "returned"
            /\ result' = [history |-> best, iterations |-> it]
            /\ exit_by' = "tolerance"
            /\ UNCHANGED <<a_n, b_n, raised, error_code>>
       ELSE IF TooManyPairs(idx)
       THEN \* raise IntervalError(self.a_n, self.b_n, 2)
            /\ pc' = "raised"
            /\ raised' = ErrorKind("multiple_roots")
            /\ error_code' = 2
            /\ UNCHANGED <<a_n, b_n, result, exit_by>>
       ELSE IF idx = {}
       THEN \* evol_array[0] of an empty list
            /\ pc' = "raised"
            /\ raised' = "IndexError"
            /\ error_code' = 0
            /\ UNCHANGED <<a_n, b_n, result, exit_by>>
       ELSE /\ a_n' = FirstPair(pts, idx)[1]
            /\ b_n' = FirstPair(pts, idx)[2]
            /\ UNCHANGED <<raised, error_code>>
            /\ IF RangeExhausted(it, nb_iteration)
               THEN \* the range is exhausted
                    /\ pc' = "returned"
                    /\ result' = [history |-> best, iterations |-> it]
                    /\ exit_by' = "cap"
               ELSE /\ pc' = "loop"
                    /\ UNCHANGED <<result, exit_by>>
    /\ ConfigurationKept
    /\ UNCHANGED <<p_n, g_calls, solves, given, previous, call>>

IterateDividing ==
    /\ IsBracketing
    /\ pc = "loop"
    /\ \E pts \in { SamplePoints(a_n, b_n, number_of_division) } :
           \E vals \in { SampleValues(f_x, pts) } :
               IterateDividingOn(pts, vals)

(***************************************************************************)
(* FixedPointSolverClass and its subclasses.                               *)
(*                                                                         *)
(* An iterate is a sequence of rationals: <<x>> for a float, <<x0, x1>>    *)
(* for a tuple, so that p[-1] is Last(p) for both and isinstance(p, tuple) *)
(* is Len(p) = 2.  An evaluation of the update rule yields                 *)
(* [ok |-> TRUE, v |-> the new iterate] or, when it raises                 *)
(* ZeroDivisionError, [ok |-> FALSE, v |-> <<>>].                          *)
(***************************************************************************)
\* The pairs <<f_x, df_x>> handed to each class (df_x is read by Newton's
\* solver only; it is the caller's, and need not be the derivative of f_x):
\*   plain fixed point   2x - 3, 2x + 1, 4 - x, x - 1
\*   Newton              (x^2 - 2, 2x), (2x - 3, 2), (x - 1, 1 - x),
\*                       (x^2 + x, 2x), (x^2 - 1, 1 - x)
\*   Secant, Regula Falsi  x^2 - 2, x^2 + 1, 2x - 3, 4 - x, x^2 - 1
\*   Steffensen          x^2 - 2, x^2 + 1, 2x - 3, x^2 - 1
Problems(c) ==
    IF c = "FixedPointSolverClass"
    THEN { <<f, <<0>>>> : f \in { <<-3, 2>>, <<1, 2>>, <<4, -1>>, <<-1, 1>> } }
    ELSE IF c = "NewtonSolverClass"
    THEN { << <<-2, 0, 1>>, <<0, 2>> >>, << <<-3, 2>>, <<2>> >>,
           << <<-1, 1>>, <<1, -1>> >>, << <<0, 1, 1>>, <<0, 2>> >>,
           << <<-1, 0, 1>>, <<1, -1>> >> }
    ELSE IF c = "SteffensenSolverClass"
    THEN { <<f, <<0>>>> : f \in { <<-2, 0, 1>>, <<1, 0, 1>>, <<-3, 2>>, <<-1, 0, 1>> } }
    ELSE { <<f, <<0>>>> : f \in { <<-2, 0, 1>>, <<1, 0, 1>>, <<-3, 2>>, <<4, -1>>,
                                  <<-1, 0, 1>> } }

FixedClasses ==
    { "FixedPointSolverClass", "NewtonSolverClass", "SecantSolverClass",
      "RegularFalsiSolverClass", "SteffensenSolverClass" }

TupleClasses == { "SecantSolverClass", "RegularFalsiSolverClass" }

Seeds(c) ==
    IF c \in TupleClasses
    THEN { <<x0, x1>> : x0 \in Limits, x1 \in Limits }
    ELSE { <<x>> : x \in Limits }

Raises == [ok |-> FALSE, v |-> <<>>]

Value(v) == [ok |-> TRUE, v |-> v]

\* The secant rule without the factor (x_ab[1] - x_ab[0])
secant_function_unscaled(f, x_ab) ==
    LET f0 == Eval(f, x_ab[1])
        f1 == Eval(f, x_ab[2])
    IN  IF RIsZero(RSub(f1, f0))
        THEN Raises
        ELSE Value(RSub(x_ab[2], RDiv(f1, RSub(f1, f0))))

\* secant_function(f_x, x_ab)
secant_function(f, x_ab) ==
    LET f0 == Eval(f, x_ab[1])
        f1 == Eval(f, x_ab[2])
    IN  IF RIsZero(RSub(f1, f0))
        THEN Raises
        ELSE Value(RSub(x_ab[2],
                        RDiv(RMul(f1, RSub(x_ab[2], x_ab[1])), RSub(f1, f0))))

\* The update that always keeps x_ab[1], as the secant rule does
regula_falsi_function_shifting(f, x_ab) ==
    LET s == secant_function(f, x_ab)
    IN  IF ~s.ok THEN Raises ELSE Value(<<x_ab[2], s.v>>)

\* regula_falsi_function(f_x, x_ab)
regula_falsi_function(f, x_ab) ==
    LET s == secant_function(f, x_ab)
    IN  IF ~s.ok THEN Raises
        ELSE IF SignProduct(f, s.v, x_ab[2]) < 0
        THEN Value(<<x_ab[2], s.v>>)
        ELSE Value(<<x_ab[1], s.v>>)

\* SteffensenSolverClass.steffensen_function(f_x, p_n)
steffensen_function(f, x) ==
    LET fx == Eval(f, x)
        ffx == Eval(f, fx)
        den == RAdd(RSub(ffx, RMul(R(2), fx)), x)
    IN  IF RIsZero(den)
        THEN Raises
        ELSE Value(RSub(x, RDiv(RMul(RSub(fx, x), RSub(fx, x)), den)))

\* Newton's lambda x: x - f_x(x) / df_x(x)
newton_function(f, df, x) ==
    IF RIsZero(Eval(df, x))
    THEN Raises
    ELSE Value(RSub(x, RDiv(Eval(f, x), Eval(df, x))))

\* f_x_super: the update rule the class hands to FixedPointSolverClass.__init__
UpdateRule(c, f, df, p) ==
    IF c = "NewtonSolverClass"
    THEN LET r == newton_function(f, df, p[1])
         IN  IF r.ok THEN Value(<<r.v>>) ELSE Raises
    ELSE IF c = "SecantSolverClass"
    THEN LET r == secant_function(f, p)
         IN  IF r.ok THEN Value(<<p[2], r.v>>) ELSE Raises
    ELSE IF c = "RegularFalsiSolverClass"
    THEN regula_falsi_function(f, p)
    ELSE IF c = "SteffensenSolverClass"
    THEN LET r == steffensen_function(f, p[1])
         IN  IF r.ok THEN Value(<<r.v>>) ELSE Raises
    ELSE Value(<<Eval(f, p[1])>>)

\* The test of the seed with Newton's left out
SeedIsDegenerateNewtonUnchecked(c, f, df, p) ==
    IF c \in TupleClasses THEN RIsZero(RSub(Eval(f, p[1]), Eval(f, p[2])))
    ELSE FALSE

\* The test of the seed with Regula Falsi's left out
SeedIsDegenerateFalsiUnchecked(c, f, df, p) ==
    IF c = "NewtonSolverClass" THEN RIsZero(Eval(df, p[1]))
    ELSE IF c = "SecantSolverClass" THEN RIsZero(RSub(Eval(f, p[1]), Eval(f, p[2])))
    ELSE FALSE

\* The test the subclass makes on its seed before it builds the update rule
SeedIsDegenerate(c, f, df, p) ==
    IF c = "NewtonSolverClass" THEN RIsZero(Eval(df, p[1]))
    ELSE IF c \in TupleClasses THEN RIsZero(RSub(Eval(f, p[1]), Eval(f, p[2])))
    ELSE FALSE

\* abs(p[-1] - g(p)[-1]) < tolerance, for a float and for a tuple
Converged(p, gp, tol) == RLt(RAbs(RSub(Last(p), Last(gp))), tol)

\* FixedPointSolverClass.__init__ and the subclasses' __init__
ConstructFixed(c, f, df, p, nb, tol) ==
    /\ cls' = c
    /\ f_x' = f
    /\ df_x' = df
    /\ p_0' = p
    /\ nb_iteration' = nb
    /\ tolerance' = tol
    /\ error_code' = 0
    /\ solves' = 0
    /\ g_calls' = 0
    /\ result' = NoResult
    /\ exit_by' = "none"
    /\ IF SeedIsDegenerate(c, f, df, p)
       THEN /\ pc' = "raised"
            /\ raised' = ErrorKind(IF c = "NewtonSolverClass" THEN "zero_derivative"
                                                              ELSE "zero_denominator")
       ELSE /\ pc' = "ready"
            /\ raised' = "none"
    /\ UNCHANGED <<number_of_division, a_n, b_n, iteration_number, best_c_n, p_n,
                   c_n, bracket_0, given, call>>

IsFixedPoint == cls \in FixedClasses

\* The count without the + 1
IterationsUsedRaw(it) == it

\* The count solve returns: iteration_number + 1
IterationsUsed(it) == it + 1

\* return p_n, iteration_number + 1
ReturnFixed(hist, it, how) ==
    /\ pc' = "returned"
    /\ result' = [history |-> hist, iterations |-> IterationsUsed(it)]
    /\ exit_by' = how
    /\ UNCHANGED <<raised, error_code>>

\* A list that outlives the call: the new history is added to what an
\* earlier solve() left in it
SharedHistory(old, p) == Append(old, p)

\* p_n = [self.p_0]: a new list, whatever an earlier solve() left in old
FreshHistory(old, p) == <<p>>

\* FixedPointSolverClass.solve up to the for loop, and the return of a
\* range(1, nb_iteration) that is empty.
SolveFixed ==
    /\ IsFixedPoint
    /\ pc \in {"ready", "returned"}
    /\ solves < MaxSolves
    /\ solves' = solves + 1
    /\ iteration_number' = 0
    /\ p_n' = FreshHistory(p_n, p_0)
    /\ IF nb_iteration <= 1
       THEN ReturnFixed(FreshHistory(p_n, p_0), 0, "cap")
       ELSE /\ pc' = "loop"
            /\ result' = NoResult
            /\ exit_by' = "none"
            /\ UNCHANGED <<raised, error_code>>
    /\ ConfigurationKept
    /\ UNCHANGED <<a_n, b_n, best_c_n, c_n, bracket_0, g_calls, given, previous, call>>

\* solve without the except clause: ZeroDivisionError reaches the caller
ExceptZeroDivisionReraised(hist, it) ==
    /\ p_n' = hist
    /\ pc' = "raised"
    /\ raised' = "ZeroDivisionError"
    /\ UNCHANGED <<result, exit_by, error_code>>

\* except ZeroDivisionError: print, break; hist is p_n as the try block left it
ExceptZeroDivision(hist, it) ==
    /\ p_n' = hist
    /\ ReturnFixed(hist, it, "zero_division")

\* break with the value computed by the test appended to p_n
BreakOnToleranceAppending(hist, test, it) ==
    /\ p_n' = Append(hist, test)
    /\ ReturnFixed(Append(hist, test), it, "tolerance")

\* The convergence test held: break; hist is p_n with the new iterate appended,
\* test is the value of the update rule the test computed on it
BreakOnTolerance(hist, test, it) ==
    /\ p_n' = hist
    /\ ReturnFixed(hist, it, "tolerance")

\* The pass in which the update rule yields next, and test on next's value:
\* the body of the for loop of FixedPointSolverClass.solve, with the return
\* that follows the loop when the pass is the last one.
IterateFixedOn(next, test) ==
    LET it == iteration_number + 1
        hist == Append(p_n, next.v)
    IN
    /\ iteration_number' = it
    /\ IF ~next.ok
       THEN \* the append raised
            /\ g_calls' = g_calls + 1
            /\ ExceptZeroDivision(p_n, it)
       ELSE /\ g_calls' = g_calls + 2
            /\ IF ~test.ok
               THEN \* the convergence test raised
                    ExceptZeroDivision(hist, it)
               ELSE IF Converged(next.v, test.v, tolerance)
               THEN BreakOnTolerance(hist, test.v, it)
               ELSE /\ p_n' = hist
                    /\ IF RangeExhausted(it, nb_iteration)
                       THEN \* the range is exhausted
                            ReturnFixed(hist, it, "cap")
                       ELSE /\ pc' = "loop"
                            /\ UNCHANGED <<result, exit_by, raised, error_code>>
    /\ ConfigurationKept
    /\ UNCHANGED <<a_n, b_n, best_c_n, c_n, bracket_0, solves, given, previous, call>>

IterateFixed ==
    /\ IsFixedPoint
    /\ pc = "loop"
    /\ \E next \in { UpdateRule(cls, f_x, df_x, Last(p_n)) } :
           \E test \in { IF next.ok THEN UpdateRule(cls, f_x, df_x, next.v)
                                    ELSE Raises } :
               IterateFixedOn(next, test)

(***************************************************************************)
(* Specification                                                           *)
(***************************************************************************)
NoInstance ==
    /\ pc = "new"
    /\ cls = "none"
    /\ f_x = <<0>>
    /\ df_x = <<0>>
    /\ nb_iteration = 0
    /\ tolerance = R(0)
    /\ number_of_division = 0
    /\ a_n = R(0)
    /\ b_n = R(0)
    /\ p_0 = <<>>
    /\ iteration_number = 0
    /\ best_c_n = <<>>
    /\ p_n = <<>>
    /\ c_n = <<>>
    /\ bracket_0 = <<R(0), R(0)>>
    /\ result = NoResult
    /\ raised = "none"
    /\ error_code = 0
    /\ exit_by = "none"
    /\ g_calls = 0
    /\ solves = 0
    /\ given = <<R(0), R(0)>>
    /\ previous = NoRun

Init ==
    /\ NoInstance
    /\ call = NoCall

\* The constructors' arguments are drawn only where a constructor can run.
NewDividing ==
    /\ pc = "new"
    /\ \E c \in BracketClasses, f \in BracketFunctions, a \in Limits, b \in Limits,
          nb \in Iterations, tol \in Tolerances :
          \E nd \in IF c = "DividingSearchSolverClass" THEN Divisions ELSE {0} :
              ConstructDividing(c, f, a, b, nd, nb, tol) /\ UNCHANGED previous

NewFixed ==
    /\ pc = "new"
    /\ \E c \in FixedClasses, nb \in Iterations, tol \in Tolerances :
          \E p \in Seeds(c), fdf \in Problems(c) :
              ConstructFixed(c, fdf[1], fdf[2], p, nb, tol) /\ UNCHANGED previous

\* test_char of tests/dichotomy_test.py: BisectionSolverClass on
\* x^3 + 4x^2 - 10 over [0, 5].  The test's nb_iteration = 100 and default
\* tolerance 1e-9 are replaced by the iteration counts and tolerances of the
\* model.
studied_polynom == <<-10, 0, 4, 1>>

NewTest ==
    /\ pc = "new"
    /\ \E nb \in Iterations, tol \in Tolerances :
          ConstructDividing("BisectionSolverClass", studied_polynom, R(0), R(5), 0,
                            nb, tol)
    /\ UNCHANGED previous

Next ==
    \/ NewTest
    \/ NewDividing
    \/ NewFixed
    \/ SolveFixed
    \/ IterateFixed
    \/ SolveDividing
    \/ IterateDividing

Spec == Init /\ [][Next]_vars

\* The arguments the instance was constructed from
Arguments ==
    [cls |-> cls, f_x |-> f_x, df_x |-> df_x, limits |-> given, p_0 |-> p_0,
     number_of_division |-> number_of_division, nb_iteration |-> nb_iteration,
     tolerance |-> tolerance]

\* What the caller of the constructor and of the first solve() observed
Observed == [raised |-> raised, error_code |-> error_code, result |-> result]

\* The constructor raised, or the first solve() of the instance is over
FirstRunOver == pc \in {"returned", "raised"} /\ solves <= 1

\* The caller keeps what the instance did, drops it and constructs a fresh
\* instance from the same arguments.
Rerun ==
    /\ FirstRunOver
    /\ previous = NoRun
    /\ previous' = [done |-> TRUE, arguments |-> Arguments, observed |-> Observed]
    /\ IF IsBracketing
       THEN ConstructDividing(cls, f_x, given[1], given[2], number_of_division,
                              nb_iteration, tolerance)
       ELSE ConstructFixed(cls, f_x, df_x, p_0, nb_iteration, tolerance)

NextRerun ==
    \/ Next
    \/ Rerun

SpecRerun == Init /\ [][NextRerun]_vars

\* solve() is in its for loop
InLoop == pc = "loop"

\* solve() runs in the thread of its caller: once it is in its loop, the next
\* pass is made.  Nothing obliges the caller to construct a solver or to
\* call solve().  The two conditions are WF_vars(IterateFixed) and
\* WF_vars(IterateDividing), with the states in which the pass is enabled
\* written out: a pass can be made in every state of the loop, whatever
\* branch it takes.
PassesAreMade ==
    /\ []<>~(IsFixedPoint /\ InLoop) \/ []<><<IterateFixed>>_vars
    /\ []<>~(IsBracketing /\ InLoop) \/ []<><<IterateDividing>>_vars

SpecLive ==
    /\ Init
    /\ [][Next]_vars
    /\ PassesAreMade

(***************************************************************************)
(* The function based solvers: bisection_method and trisection_method of   *)
(* root_finding_methods_expert, bisection_method of                        *)
(* root_finding_methods_expert_cpp and bisection_method_demo of            *)
(* root_finding_method_demo.  They keep no state between calls: each is an *)
(* operator from its arguments to what the caller gets.                    *)
(***************************************************************************)
instance_vars ==
    <<pc, cls, f_x, df_x, nb_iteration, tolerance, number_of_division, a_n, b_n,
      p_0, iteration_number, best_c_n, p_n, c_n, bracket_0, result, raised,
      error_code, exit_by, g_calls, solves, given, previous>>

FunctionModules == { "expert", "expert_cpp", "demo" }

\* The function returned n values: the list c, the count it, and the limits
\* as, bs (the whole series for the demo, the last values otherwise)
Returned(c, it, as, bs, n) ==
    [raised |-> "none", error_code |-> 0, c_n |-> c, iterations |-> it,
     a_n |-> as, b_n |-> bs, values |-> n]

\* The function raised an exception of class kind
Raised(kind, code) ==
    [raised |-> kind, error_code |-> code, c_n |-> <<>>, iterations |-> -1,
     a_n |-> <<>>, b_n |-> <<>>, values |-> 0]

NotCalled == Raised("not called", 0)

\* The tolerance test of module m: abs(f_x(x)) < tolerance in the expert
\* modules, abs(f_x(x)) <= tolerance in the demo
Within(m, f, x, tol) ==
    IF m = "demo"
    THEN RLe(RAbs(Eval(f, x)), tol)
    ELSE RLt(RAbs(Eval(f, x)), tol)

\* check_interval(f_x, a_0, b_0, tolerance) of module m
check_interval(m, f, a, b, tol) ==
    IF SignProduct(f, a, b) > 0 THEN [raised |-> TRUE, list |-> <<>>]
    ELSE IF Within(m, f, a, tol) THEN [raised |-> FALSE, list |-> <<a>>]
    ELSE IF Within(m, f, b, tol) THEN [raised |-> FALSE, list |-> <<b>>]
    ELSE [raised |-> FALSE, list |-> <<>>]

\* The demo appends every new limit to its series; the other modules
\* overwrite the limit
Keep(m, series, x) == IF m = "demo" THEN Append(series, x) ELSE <<x>>

\* The number of values bisection returns from its loop
ValuesOf(m) == IF m = "demo" THEN 4 ELSE 2

RECURSIVE bisection_loop(_, _, _, _, _, _, _, _)
\* Pass k of the for loop of the bisection of module m, entered with the list
\* c and the limits Last(as), Last(bs)
bisection_loop(m, f, nb, tol, c, as, bs, k) ==
    LET a == Last(as)
        b == Last(bs)
        mid == RAdd(a, RDiv(RSub(b, a), R(2)))
        cs == Append(c, mid)
        as1 == IF SignProduct(f, a, mid) < 0 THEN Keep(m, as, a) ELSE Keep(m, as, mid)
        bs1 == IF SignProduct(f, a, mid) < 0 THEN Keep(m, bs, mid) ELSE Keep(m, bs, b)
    IN  IF Within(m, f, mid, tol)
        THEN Returned(cs, k, as, bs, ValuesOf(m))
        ELSE IF SignProduct(f, a, mid) >= 0 /\ SignProduct(f, mid, b) >= 0
        THEN Raised("IntervalError", 2)
        ELSE IF k = nb - 1
        THEN Returned(cs, k, as1, bs1, ValuesOf(m))
        ELSE bisection_loop(m, f, nb, tol, cs, as1, bs1, k + 1)

\* The test made on check_interval's list before the loop: c_n[0] in
\* root_finding_methods_expert (an IndexError on the empty list, false on
\* the value 0), the list itself in the other modules
EntryTest(m, list) ==
    IF m = "expert"
    THEN IF list = <<>> THEN "IndexError"
         ELSE IF RIsZero(list[1]) THEN "go on" ELSE "return"
    ELSE IF list = <<>> THEN "go on" ELSE "return"

\* bisection_method of the expert modules and bisection_method_demo
bisection_method(m, f, a, b, nb, tol) ==
    LET chk == check_interval(m, f, a, b, tol)
        entry == EntryTest(m, chk.list)
    IN  IF chk.raised THEN Raised("IntervalError", 1)
        ELSE IF entry = "IndexError" THEN Raised("IndexError", 0)
        ELSE IF entry = "return"
        THEN Returned(chk.list, 0, <<a>>, <<b>>, IF m = "demo" THEN 5 ELSE 2)
        ELSE IF nb <= 1
        THEN \* the range is empty: the demo never assigned iteration_number
             IF m = "demo" THEN Raised("UnboundLocalError", 0)
             ELSE Returned(chk.list, 0, <<a>>, <<b>>, 2)
        ELSE bisection_loop(m, f, nb, tol, chk.list, <<a>>, <<b>>, 1)

\* root_nearest_point(f_x, c_1, c_2)
root_nearest_point(f, c_1, c_2) ==
    IF RLe(RAbs(Eval(f, c_1)), RAbs(Eval(f, c_2))) THEN c_1 ELSE c_2

RECURSIVE trisection_loop(_, _, _, _, _, _, _)
\* Pass k of the for loop of trisection_method of root_finding_methods_expert
trisection_loop(f, nb, tol, best, a, b, k) ==
    LET c_1 == RDiv(RAdd(RMul(R(2), a), b), R(3))
        c_2 == RDiv(RAdd(a, RMul(R(2), b)), R(3))
        bests == Append(best, root_nearest_point(f, c_1, c_2))
        a1 == IF SignProduct(f, a, c_1) < 0 THEN a
              ELSE IF SignProduct(f, c_1, c_2) < 0 THEN c_1 ELSE c_2
        b1 == IF SignProduct(f, a, c_1) < 0 THEN c_1
              ELSE IF SignProduct(f, c_1, c_2) < 0 THEN c_2 ELSE b
    IN  IF Within("expert", f, c_1, tol)
        THEN Returned(Append(best, c_1), k, <<a>>, <<b>>, 2)
        ELSE IF Within("expert", f, c_2, tol)
        THEN Returned(Append(best, c_2), k, <<a>>, <<b>>, 2)
        ELSE IF /\ SignProduct(f, a, c_1) >= 0
                /\ SignProduct(f, c_1, c_2) >= 0
                /\ SignProduct(f, c_2, b) >= 0
        THEN Raised("IntervalError", 2)
        ELSE IF k = nb - 1
        THEN Returned(bests, k, <<a1>>, <<b1>>, 2)
        ELSE trisection_loop(f, nb, tol, bests, a1, b1, k + 1)

\* trisection_method of root_finding_methods_expert
trisection_method(f, a, b, nb, tol) ==
    LET chk == check_interval("expert", f, a, b, tol)
        entry == EntryTest("expert", chk.list)
    IN  IF chk.raised THEN Raised("IntervalError", 1)
        ELSE IF entry = "IndexError" THEN Raised("IndexError", 0)
        ELSE IF entry = "return" THEN Returned(chk.list, 0, <<a>>, <<b>>, 2)
        ELSE IF nb <= 1 THEN Returned(chk.list, 0, <<a>>, <<b>>, 2)
        ELSE trisection_loop(f, nb, tol, chk.list, a, b, 1)

\* A Python list held where a number is expected; a number is a pair <<n, d>>
ListObject(l) == <<l>>

IsFloat(v) == Len(v) = 2

RECURSIVE trisection_demo_loop(_, _, _, _, _, _, _, _, _)
\* Pass k of the for loop of trisection_method_demo, entered with the lists
\* best_c_n, c_1_n, c_2_n, a_n, b_n
trisection_demo_loop(f, nb, tol, best, c1s, c2s, as, bs, k) ==
    IF ~IsFloat(Last(as))
    THEN \* 2 * a_n[-1] + b_n[-1] with a list for a_n[-1]
         Raised("TypeError", 0)
    ELSE
    LET a == Last(as)
        b == Last(bs)
        c_1 == RDiv(RAdd(RMul(R(2), a), b), R(3))
        c_2 == RDiv(RAdd(a, RMul(R(2), b)), R(3))
        c1s1 == Append(c1s, c_1)
        c2s1 == Append(c2s, c_2)
        bests == Append(best, root_nearest_point(f, c_1, c_2))
        first == SignProduct(f, a, c_1) < 0
        second == SignProduct(f, c_1, c_2) < 0
        third == SignProduct(f, c_2, b) < 0
        as1 == IF first THEN Append(as, a)
               ELSE IF second THEN Append(as, c_1)
               ELSE Append(as, ListObject(c2s1))
        bs1 == IF first THEN Append(bs, c_1)
               ELSE IF second THEN Append(bs, c_2)
               ELSE bs
    IN  IF Within("demo", f, c_1, tol)
        THEN \* best_c_n.append(c_1_n): the list, not its last element
             Returned(Append(best, ListObject(c1s1)), k, as, bs, 6)
        ELSE IF Within("demo", f, c_2, tol)
        THEN Returned(Append(best, c_2), k, as, bs, 6)
        ELSE IF ~first /\ ~second /\ ~third
        THEN Raised("IntervalError", 2)
        ELSE IF k = nb - 1
        THEN Returned(bests, k, as1, bs1, 6)
        ELSE trisection_demo_loop(f, nb, tol, bests, c1s1, c2s1, as1, bs1, k + 1)

\* trisection_method_demo of root_finding_method_demo.  Of the six values it
\* returns, the lists c_1_n and c_2_n are left out of the outcome.
trisection_method_demo(f, a, b, nb, tol) ==
    LET chk == check_interval("demo", f, a, b, tol)
    IN  IF chk.raised THEN Raised("IntervalError", 1)
        ELSE IF chk.list # <<>> THEN Returned(chk.list, 0, <<a>>, <<b>>, 6)
        ELSE IF nb <= 1 THEN Raised("UnboundLocalError", 0)
        ELSE trisection_demo_loop(f, nb, tol, chk.list, <<>>, <<>>, <<a>>, <<b>>, 1)

FunctionNames ==
    { "expert.bisection_method", "expert.trisection_method",
      "expert_cpp.bisection_method", "demo.bisection_method_demo",
      "demo.trisection_method_demo" }

\* The arguments of the calls: the same for every function, so that what the
\* functions return can be compared
CallArguments ==
    [made : {TRUE}, f_x : BracketFunctions, a_n : Limits, b_n : Limits,
     nb_iteration : Iterations, tolerance : Tolerances,
     out : {[n \in FunctionNames |-> NotCalled]}]

\* The caller calls function name, which yields outcome
Call(name, outcome) ==
    /\ call.out[name] = NotCalled
    /\ call' = [call EXCEPT !.out[name] = outcome]
    /\ UNCHANGED instance_vars

CallBisectionExpert ==
    /\ call.made
    /\ Call("expert.bisection_method",
            bisection_method("expert", call.f_x, call.a_n, call.b_n,
                             call.nb_iteration, call.tolerance))

CallTrisectionExpert ==
    /\ call.made
    /\ Call("expert.trisection_method",
            trisection_method(call.f_x, call.a_n, call.b_n, call.nb_iteration,
                              call.tolerance))

CallBisectionCpp ==
    /\ call.made
    /\ Call("expert_cpp.bisection_method",
            bisection_method("expert_cpp", call.f_x, call.a_n, call.b_n,
                             call.nb_iteration, call.tolerance))

CallBisectionDemo ==
    /\ call.made
    /\ Call("demo.bisection_method_demo",
            bisection_method("demo", call.f_x, call.a_n, call.b_n,
                             call.nb_iteration, call.tolerance))

CallTrisectionDemo ==
    /\ call.made
    /\ Call("demo.trisection_method_demo",
            trisection_method_demo(call.f_x, call.a_n, call.b_n,
                                   call.nb_iteration, call.tolerance))

InitFunctions ==
    /\ NoInstance
    /\ call \in CallArguments

NextFunctions ==
    \/ CallBisectionExpert
    \/ CallTrisectionExpert
    \/ CallBisectionCpp
    \/ CallBisectionDemo
    \/ CallTrisectionDemo

SpecFunctions == InitFunctions /\ [][NextFunctions]_vars

(***************************************************************************)
(* Properties                                                              *)
(***************************************************************************)
\* h is p_0 followed by the successive values of the instance's update rule
IsOrbit(h) ==
    /\ Len(h) >= 1
    /\ h[1] = p_0
    /\ \A k \in 1..(Len(h) - 1) :
          LET g == UpdateRule(cls, f_x, df_x, h[k])
          IN  g.ok /\ h[k + 1] = g.v

\* indices of the adjacent pairs of c_n on which f_x takes strictly opposite signs
OppositePairs ==
    { k \in 1..(Len(c_n) - 1) : SignProduct(f_x, c_n[k], c_n[k + 1]) < 0 }

\* the last pass of the dividing search left a candidate that is not within
\* the tolerance
CandidateRejected ==
    /\ IsBracketing
    /\ solves >= 1
    /\ c_n # <<>>
    /\ ~RLt(RAbs(Eval(f_x, Last(best_c_n))), tolerance)

\* C1: whenever the limits of a bracketing solver (number_of_division >= 2)
\* have f_x(a_n) * f_x(b_n) > 0, the solver has failed with IntervalError
\* (error code 1) and its loop was never entered: no sample point was
\* computed, no estimate is in the history, nothing was returned, and the
\* limits are the ones the call began with.
C1_NoSignChangeRaisesBeforeLoop ==
    (IsBracketing /\ number_of_division >= 2 /\ SignProduct(f_x, a_n, b_n) > 0) =>
        /\ pc = "raised"
        /\ raised = "IntervalError"
        /\ error_code = 1
        /\ iteration_number = 0
        /\ c_n = <<>>
        /\ best_c_n = <<>>
        /\ result = NoResult
        /\ <<a_n, b_n>> = bracket_0

\* a bisection solver on f(x) = x^2 + 1 with a = 0, b = 1 has failed with
\* IntervalError, error code 1
C1_Witness ==
    /\ cls = "BisectionSolverClass"
    /\ f_x = <<1, 0, 1>>
    /\ a_n = R(0)
    /\ b_n = R(1)
    /\ pc = "raised"
    /\ raised = "IntervalError"
    /\ error_code = 1

\* C2: once solve of a bracketing solver has passed check_interval on
\* limits a, b with f(a) * f(b) <= 0, it has returned ([a], 0) if
\* |f(a)| <= tolerance, otherwise ([b], 0) if |f(b)| <= tolerance, and
\* otherwise its history is empty and no immediate root was reported; the
\* comparisons are inclusive.
C2_InclusiveEndpointTest ==
    (IsBracketing /\ solves >= 1 /\ iteration_number = 0 /\ raised = "none") =>
        IF RLe(RAbs(Eval(f_x, bracket_0[1])), tolerance)
        THEN /\ pc = "returned"
             /\ result = [history |-> <<bracket_0[1]>>, iterations |-> 0]
        ELSE IF RLe(RAbs(Eval(f_x, bracket_0[2])), tolerance)
        THEN /\ pc = "returned"
             /\ result = [history |-> <<bracket_0[2]>>, iterations |-> 0]
        ELSE /\ best_c_n = <<>>
             /\ exit_by # "immediate"

\* C3: whenever solve of a bisection solver has returned, the last element
\* c of the returned history has |f(c)| <= tolerance, or the returned count
\* is nb_iteration - 1.
C3_BisectionReturn ==
    (cls = "BisectionSolverClass" /\ pc = "returned") =>
        \/ /\ result.history # <<>>
           /\ RLe(RAbs(Eval(f_x, Last(result.history))), tolerance)
        \/ result.iterations = nb_iteration - 1

\* a bisection solver with nb_iteration = 4 has returned from the second
\* pass of its loop with an estimate within the tolerance
C3_Witness ==
    /\ cls = "BisectionSolverClass"
    /\ pc = "returned"
    /\ exit_by = "tolerance"
    /\ nb_iteration = 4
    /\ result.iterations = 2
    /\ RLe(RAbs(Eval(f_x, Last(result.history))), tolerance)

\* C4: after a pass of the dividing search whose candidate is not within
\* the tolerance and in which more than one adjacent pair of sample points
\* has values of strictly opposite sign, solve has failed with IntervalError
\* with error code 2, and the limits a_n, b_n are the ones the pass began with.
C4_SeveralSignChangesRaise ==
    (CandidateRejected /\ Cardinality(OppositePairs) > 1) =>
        /\ pc = "raised"
        /\ raised = "IntervalError"
        /\ error_code = 2
        /\ <<a_n, b_n>> = bracket_0

\* a trisection solver has failed with error code 2 in a pass that found
\* three sign changing pairs
C4_Witness ==
    /\ cls = "TrisectionSolverClass"
    /\ CandidateRejected
    /\ Cardinality(OppositePairs) = 3
    /\ pc = "raised"
    /\ raised = "IntervalError"
    /\ error_code = 2

\* C5: after a pass of the dividing search whose candidate is not within
\* the tolerance and in which no adjacent pair of sample points has values
\* of strictly opposite sign, solve has failed with IntervalError and with
\* no other exception.
C5_NoSignChangeRaisesIntervalError ==
    (CandidateRejected /\ OppositePairs = {}) =>
        /\ pc = "raised"
        /\ raised = "IntervalError"

\* C6: once solve has been called on a fixed point solver no exception has
\* reached the caller, and when the update rule raised ZeroDivisionError in
\* the loop, solve has returned a history that is p_0 followed by values the
\* update rule did yield, whose last element is the iterate on which the
\* update rule raised.
C6_ZeroDivisionStopsQuietly ==
    (IsFixedPoint /\ solves >= 1) =>
        /\ pc # "raised"
        /\ raised = "none"
        /\ (exit_by = "zero_division") =>
              /\ pc = "returned"
              /\ IsOrbit(result.history)
              /\ ~UpdateRule(cls, f_x, df_x, Last(result.history)).ok

\* a Newton solver has returned after its derivative vanished on an iterate
\* later than the seed
C6_Witness ==
    /\ cls = "NewtonSolverClass"
    /\ pc = "returned"
    /\ exit_by = "zero_division"
    /\ Len(result.history) >= 2
    /\ RIsZero(Eval(df_x, Last(result.history)[1]))

\* C7 (as stated): when the convergence test held for the current iterate p
\* (the last element of p_n), the final element of the returned history is
\* the value of the update rule on p.
C7_ReturnsNewValue ==
    (IsFixedPoint /\ exit_by = "tolerance") =>
        LET g == UpdateRule(cls, f_x, df_x, Last(p_n))
        IN  /\ g.ok
            /\ Converged(Last(p_n), g.v, tolerance)
            /\ Last(result.history) = g.v

\* C7 (amended): when the convergence test held, the returned history is p_n,
\* it is p_0 followed by one value of the update rule per pass of the loop,
\* and its final element is the iterate p the test held for: the value of
\* the update rule on p, computed by the test, is not appended.
C7_ReturnsTestedIterate ==
    (IsFixedPoint /\ exit_by = "tolerance") =>
        LET g == UpdateRule(cls, f_x, df_x, Last(result.history))
        IN  /\ pc = "returned"
            /\ result.history = p_n
            /\ IsOrbit(result.history)
            /\ Len(result.history) = iteration_number + 1
            /\ g.ok
            /\ Converged(Last(result.history), g.v, tolerance)

\* a fixed point solver has left its loop by the convergence test on an
\* iterate that the update rule still moves
C7_Witness ==
    /\ IsFixedPoint
    /\ pc = "returned"
    /\ exit_by = "tolerance"
    /\ UpdateRule(cls, f_x, df_x, Last(result.history)).ok
    /\ UpdateRule(cls, f_x, df_x, Last(result.history)).v # Last(result.history)

\* C8: when the loop of a fixed point solver ran out of passes (no
\* convergence, no division by zero), solve has returned the count
\* nb_iteration and a history of nb_iteration elements, p_0 followed by the
\* successive values of the update rule, for every nb_iteration >= 1.
C8_CapReturnsMaxIterations ==
    (IsFixedPoint /\ exit_by = "cap") =>
        /\ pc = "returned"
        /\ nb_iteration >= 1
        /\ result.iterations = nb_iteration
        /\ Len(result.history) = nb_iteration
        /\ IsOrbit(result.history)

\* a fixed point solver with nb_iteration = 3 has run out of passes
C8_Witness ==
    /\ IsFixedPoint
    /\ pc = "returned"
    /\ exit_by = "cap"
    /\ nb_iteration = 3
    /\ iteration_number = 2

\* C9: a Newton solver whose derivative is zero at the seed has failed with
\* ZeroDivisionError at construction: solve was never called, the update
\* rule was never evaluated and there is no iterate.
C9_NewtonZeroDerivativeAtSeed ==
    (cls = "NewtonSolverClass" /\ RIsZero(Eval(df_x, p_0[1]))) =>
        /\ pc = "raised"
        /\ raised = "ZeroDivisionError"
        /\ solves = 0
        /\ g_calls = 0
        /\ p_n = <<>>
        /\ result = NoResult

\* a Newton solver for x^2 - 2 with derivative 2x has failed at the seed 0
C9_Witness ==
    /\ cls = "NewtonSolverClass"
    /\ f_x = <<-2, 0, 1>>
    /\ df_x = <<0, 2>>
    /\ p_0 = <<R(0)>>
    /\ pc = "raised"
    /\ raised = "ZeroDivisionError"

\* C10: a Secant or Regula Falsi solver whose seed pair has f(x0) = f(x1)
\* has failed with ZeroDivisionError at construction: no pass of the loop
\* ran, the update rule was never evaluated and no history was returned.
C10_DegenerateSeedPair ==
    (cls \in TupleClasses /\ Eval(f_x, p_0[1]) = Eval(f_x, p_0[2])) =>
        /\ pc = "raised"
        /\ raised = "ZeroDivisionError"
        /\ solves = 0
        /\ iteration_number = 0
        /\ g_calls = 0
        /\ result = NoResult

\* a Regula Falsi solver has failed on two distinct seeds of equal value
C10_Witness ==
    /\ cls = "RegularFalsiSolverClass"
    /\ p_0[1] # p_0[2]
    /\ Eval(f_x, p_0[1]) = Eval(f_x, p_0[2])
    /\ pc = "raised"
    /\ raised = "ZeroDivisionError"

\* the error outcome the instance stopped on, "none" if it is not one of
\* the four
Outcome ==
    IF pc # "raised" THEN "none"
    ELSE IF IsBracketing /\ error_code = 1 THEN "bracket_invalid"
    ELSE IF IsBracketing /\ error_code = 2 THEN "multiple_roots"
    ELSE IF cls = "NewtonSolverClass" /\ solves = 0 THEN "zero_derivative"
    ELSE IF cls \in TupleClasses /\ solves = 0 THEN "zero_denominator"
    ELSE "none"

C12_FreshInstanceRepeats ==
    (previous.done /\ previous.arguments = Arguments /\ FirstRunOver) =>
        Observed = previous.observed

\* a second bisection instance has returned a history of two estimates and
\* has, as the first one had, moved its limits away from the given ones
C12_Witness ==
    /\ previous.done
    /\ previous.arguments = Arguments
    /\ cls = "BisectionSolverClass"
    /\ pc = "returned"
    /\ solves = 1
    /\ Len(result.history) >= 2
    /\ <<a_n, b_n>> # given

\* v is a number, not a list of numbers
IsNumber(v) == v \in Int \X Int

\* the instance is the one test_char constructs
IsTestInstance ==
    /\ cls = "BisectionSolverClass"
    /\ f_x = studied_polynom
    /\ given = <<R(0), R(5)>>

\* C13: when solve of the instance of test_char has returned, its first
\* result is the root estimate, a number that the test can compare with the
\* expected root, and the root lies within the tolerance of it (f changes
\* sign between the estimate minus and plus the tolerance).
C13_FirstResultIsTheEstimate ==
    (IsTestInstance /\ pc = "returned") =>
        /\ IsNumber(result.history)
        /\ SignProduct(f_x, RSub(result.history, tolerance),
                            RAdd(result.history, tolerance)) <= 0

\* the outcome of the call of function name
Out(name) == call.out[name]

\* the call's limits have f(a) * f(b) <= 0
CallBrackets == call.made /\ SignProduct(call.f_x, call.a_n, call.b_n) <= 0

\* an endpoint of the call's interval is within the tolerance (strictly)
EndpointWithin(x) == RLt(RAbs(Eval(call.f_x, x)), call.tolerance)

\* what C14 states of one outcome o of a call with f(a) * f(b) <= 0
AsDocumented(o) ==
    /\ o.raised \in {"none", "IntervalError"}
    /\ IF EndpointWithin(call.a_n)
       THEN o.raised = "none" /\ o.c_n = <<call.a_n>> /\ o.iterations = 0
       ELSE IF EndpointWithin(call.b_n)
       THEN o.raised = "none" /\ o.c_n = <<call.b_n>> /\ o.iterations = 0
       ELSE o.raised = "IntervalError" \/ o.iterations >= 1

\* C14: bisection_method and trisection_method of root_finding_methods_expert,
\* called with f(a) * f(b) <= 0 and nb_iteration >= 2, return the pair (list,
\* count) or raise IntervalError and nothing else; with an endpoint within
\* the tolerance they return that endpoint and the count 0, and otherwise
\* they go on to iterate.
C14_ExpertReturnsOrIntervalError ==
    (CallBrackets /\ call.nb_iteration >= 2) =>
        \A name \in {"expert.bisection_method", "expert.trisection_method"} :
            Out(name) # NotCalled => AsDocumented(Out(name))

\* C15: called with the same arguments, bisection_method_demo and the
\* bisection_method of root_finding_methods_expert_cpp end the same way:
\* the same list of estimates c_n and the same count, or the same exception.
C15_DemoIsAnObserver ==
    LET demo == Out("demo.bisection_method_demo")
        plain == Out("expert_cpp.bisection_method")
    IN  (call.made /\ demo # NotCalled /\ plain # NotCalled) =>
            /\ demo.raised = plain.raised
            /\ demo.error_code = plain.error_code
            /\ demo.c_n = plain.c_n
            /\ demo.iterations = plain.iterations

\* The pass of the for loop of solve() that ran last ended on the sample
\* points c_n and appended a candidate to best_c_n
PassDone ==
    /\ IsBracketing
    /\ solves >= 1
    /\ iteration_number >= 1
    /\ c_n # <<>>
    /\ best_c_n # <<>>

\* C16: the candidate appended by a pass is the sample point with the
\* smallest absolute function value, the first one among equal values.
C16_CandidateHasSmallestAbs ==
    PassDone =>
        \E k \in 1..Len(c_n) :
            /\ Last(best_c_n) = c_n[k]
            /\ \A j \in 1..Len(c_n) :
                   RLe(RAbs(Eval(f_x, c_n[k])), RAbs(Eval(f_x, c_n[j])))
            /\ \A j \in 1..(k - 1) :
                   ~RLe(RAbs(Eval(f_x, c_n[j])), RAbs(Eval(f_x, c_n[k])))

\* C17: after a pass whose candidate was not within the tolerance and in
\* which exactly one adjacent pair of sample points has values of strictly
\* opposite sign, the bracket of the solver is exactly that pair, and no
\* error was raised.
C17_SinglePairIsNextBracket ==
    (CandidateRejected /\ iteration_number >= 1 /\ Cardinality(OppositePairs) = 1) =>
        /\ \A k \in OppositePairs : <<a_n, b_n>> = <<c_n[k], c_n[k + 1]>>
        /\ pc \in {"loop", "returned"}
        /\ raised = "none"

\* a trisection solver has narrowed its bracket to the middle pair of sample
\* points, the only one with a sign change
C17_Witness ==
    /\ cls = "TrisectionSolverClass"
    /\ CandidateRejected
    /\ iteration_number >= 1
    /\ OppositePairs = {2}
    /\ <<a_n, b_n>> = <<c_n[2], c_n[3]>>
    /\ <<a_n, b_n>> # bracket_0

\* the constructor of a bracketing solver returned without raising
Constructed ==
    /\ IsBracketing
    /\ pc # "new"
    /\ ~(pc = "raised" /\ solves = 0)

\* C18: in every state of a bracketing solver whose constructor succeeded,
\* before, during and after any sequence of calls of solve(), whether they
\* return or raise, the limits satisfy f_x(a_n) * f_x(b_n) <= 0.
C18_BracketInvariant ==
    Constructed => SignProduct(f_x, a_n, b_n) <= 0

\* a solver that narrowed its bracket is in its second call of solve()
C18_Witness ==
    /\ Constructed
    /\ solves = 2
    /\ <<a_n, b_n>> # given
    /\ iteration_number >= 1
    /\ SignProduct(f_x, a_n, b_n) < 0

\* x lies between the limits lo and hi, whichever is the larger
Between(x, lo, hi) ==
    \/ RLe(lo, x) /\ RLe(x, hi)
    \/ RLe(hi, x) /\ RLe(x, lo)

\* the width of the bracket with limits a and b
Width(a, b) == RAbs(RSub(b, a))

\* 2^k
RECURSIVE Pow2(_)
Pow2(k) == IF k = 0 THEN 1 ELSE 2 * Pow2(k - 1)

\* The number of passes of the running or last solve() that assigned the
\* limits: every pass but one that broke out of the loop or raised
Updates ==
    IF pc = "loop" \/ (pc = "returned" /\ exit_by = "cap") THEN iteration_number
    ELSE IF iteration_number >= 1 THEN iteration_number - 1
    ELSE 0

\* the width of a bisection solver in its first solve() is the width given
\* to the constructor divided by 2^Updates
Halved ==
    (Constructed /\ cls = "BisectionSolverClass" /\ solves <= 1) =>
        RMul(Width(a_n, b_n), R(Pow2(Updates))) = Width(given[1], given[2])

\* C19: every step of a constructed bracketing solver leaves the new limits
\* between the previous ones and within the limits given to the constructor,
\* with a width that does not grow; a step that assigns the limits divides
\* the width by number_of_division exactly, and the width of a bisection
\* solver after k such steps is the initial width divided by 2^k.
C19_BracketNarrows ==
    [][ /\ Constructed =>
            /\ Between(a_n', a_n, b_n)
            /\ Between(b_n', a_n, b_n)
            /\ Between(a_n', given[1], given[2])
            /\ Between(b_n', given[1], given[2])
            /\ RLe(Width(a_n', b_n'), Width(a_n, b_n))
            /\ RLe(Width(a_n', b_n'), Width(given[1], given[2]))
            /\ <<a_n', b_n'>> # <<a_n, b_n>> =>
                   RMul(Width(a_n', b_n'), R(number_of_division)) = Width(a_n, b_n)
        /\ Halved' ]_vars

\* a bisection solver has assigned its limits three times and its bracket is
\* an eighth of the one it was constructed with
C19_Witness ==
    /\ Constructed
    /\ cls = "BisectionSolverClass"
    /\ solves = 1
    /\ pc = "returned"
    /\ exit_by = "cap"
    /\ iteration_number = 3
    /\ RMul(Width(a_n, b_n), R(8)) = Width(given[1], given[2])
    /\ ~RIsZero(Width(a_n, b_n))

C21_RegulaFalsiKeepsBracket ==
    (/\ cls = "RegularFalsiSolverClass"
     /\ solves >= 1
     /\ SignProduct(f_x, p_0[1], p_0[2]) < 0) =>
        /\ \A k \in 1..Len(p_n) :
               /\ Len(p_n[k]) = 2
               /\ SignProduct(f_x, p_n[k][1], p_n[k][2]) <= 0
        /\ \A k \in 1..(Len(p_n) - 1) :
               LET c == secant_function(f_x, p_n[k])
               IN  /\ c.ok
                   /\ p_n[k + 1] = IF SignProduct(f_x, c.v, p_n[k][2]) < 0
                                   THEN <<p_n[k][2], c.v>>
                                   ELSE <<p_n[k][1], c.v>>

\* a Regula Falsi solver has appended a pair that kept x1 and then a pair
\* that kept x0
C21_Witness ==
    /\ cls = "RegularFalsiSolverClass"
    /\ solves >= 1
    /\ SignProduct(f_x, p_0[1], p_0[2]) < 0
    /\ Len(p_n) >= 3
    /\ p_n[2][1] = p_n[1][2]
    /\ p_n[3][1] = p_n[2][1]
    /\ p_n[3] # p_n[2]

\* C22: every entry of the history of a Secant solver is a pair, and for two
\* consecutive entries (x0, x1) and (y0, y1), y0 = x1 and
\* y1 = x1 - f(x1) * (x1 - x0) / (f(x1) - f(x0)).
C22_SecantHistory ==
    (cls = "SecantSolverClass" /\ solves >= 1) =>
        /\ Len(p_n) >= 1
        /\ p_n[1] = p_0
        /\ \A k \in 1..Len(p_n) : Len(p_n[k]) = 2
        /\ \A k \in 1..(Len(p_n) - 1) :
               LET x0 == p_n[k][1]
                   x1 == p_n[k][2]
                   f0 == Eval(f_x, x0)
                   f1 == Eval(f_x, x1)
               IN  /\ ~RIsZero(RSub(f1, f0))
                   /\ p_n[k + 1][1] = x1
                   /\ p_n[k + 1][2] =
                          RSub(x1, RDiv(RMul(f1, RSub(x1, x0)), RSub(f1, f0)))

\* a Secant solver has a history of three pairs with three different last
\* components
C22_Witness ==
    /\ cls = "SecantSolverClass"
    /\ solves >= 1
    /\ Len(p_n) >= 3
    /\ p_n[2][2] # p_n[1][2]
    /\ p_n[3][2] # p_n[2][2]

\* solve() is over: it returned or it raised
SolveOver == pc \in {"returned", "raised"} /\ solves >= 1

\* C23: every solve() of both families that enters its loop ends, with a
\* return or with an exception, and at no time has it made more than
\* nb_iteration - 1 passes through the body of the loop.
C23_SolveTerminates ==
    /\ [](solves >= 1 => iteration_number <= nb_iteration - 1)
    /\ [](InLoop => iteration_number < nb_iteration - 1)
    /\ (InLoop ~> SolveOver)

\* a solve() has ended having made nb_iteration - 1 = 3 passes
C23_Witness ==
    /\ SolveOver
    /\ nb_iteration = 4
    /\ iteration_number = 3
    /\ exit_by = "cap"

\* C24: no step of solve() of either family (check_interval included)
\* changes nb_iteration, tolerance, f_x, df_x, number_of_division or p_0; a
\* step of a fixed point solve() changes no field of the instance at all,
\* and a bracketing solve() changes no field but the limits a_n and b_n.
C24_ConfigurationReadOnly ==
    [][ pc # "new" =>
            /\ cls' = cls
            /\ nb_iteration' = nb_iteration
            /\ tolerance' = tolerance
            /\ f_x' = f_x
            /\ df_x' = df_x
            /\ number_of_division' = number_of_division
            /\ p_0' = p_0
            /\ IsFixedPoint => <<a_n', b_n'>> = <<a_n, b_n>> ]_vars

\* a bracketing solver has returned from its second solve() with new limits
\* and a fixed point solver from its second solve()
C24_Witness ==
    /\ solves = 2
    /\ pc = "returned"
    /\ iteration_number >= 2
    /\ IsBracketing => <<a_n, b_n>> # given

\* C25: after a pass in which f_x is exactly zero at one of the sample
\* points, solve() has returned in that pass, without an exception, with a
\* point at which f_x is zero as its final estimate.
C25_ExactRootIsReturned ==
    (PassDone /\ \E k \in 1..Len(c_n) : RIsZero(Eval(f_x, c_n[k]))) =>
        /\ pc = "returned"
        /\ raised = "none"
        /\ result.iterations = iteration_number
        /\ RIsZero(Eval(f_x, Last(result.history)))

\* C26: whenever solve() of a fixed point solver has returned, by
\* convergence, by running out of passes or by a division by zero, the count
\* it returned is the length of the history it returned.
C26_CountIsHistoryLength ==
    (IsFixedPoint /\ pc = "returned") =>
        result.iterations = Len(result.history)

\* C27 as stated: whenever solve() of a bracketing solver has returned (a
\* root at a limit, a candidate within the tolerance, or no pass left), the
\* count it returned is the length of the history it returned.
C27_CountIsHistoryLength ==
    (IsBracketing /\ pc = "returned") =>
        result.iterations = Len(result.history)

\* C27: whenever solve() of a bracketing solver has returned from its loop
\* (a candidate within the tolerance, or no pass left), the count it
\* returned is the length of the history it returned; when it has returned
\* a limit found within the tolerance by check_interval, the count is 0 and
\* the history is that one limit.
C27_CountIsHistoryLengthAfterLoop ==
    (IsBracketing /\ pc = "returned") =>
        IF exit_by = "immediate"
        THEN /\ result.iterations = 0
             /\ Len(result.history) = 1
             /\ result.history[1] \in {a_n, b_n}
        ELSE /\ result.iterations = Len(result.history)
             /\ result.iterations = iteration_number

\* a bracketing solver has returned from its second pass with a candidate
\* within the tolerance: count 2, two candidates
C27_Witness ==
    /\ IsBracketing
    /\ pc = "returned"
    /\ exit_by = "tolerance"
    /\ result.iterations = 2
    /\ Len(result.history) = 2

\* C28: whenever solve() of a bracketing solver with nb_iteration >= 1 has
\* returned, the history it returned is not empty: there is a final
\* estimate.
C28_ReturnedHistoryNotEmpty ==
    (IsBracketing /\ pc = "returned" /\ nb_iteration >= 1) =>
        result.history # <<>>

\* <<lo, hi>> is one of the three thirds of the bracket <<a, b>>
IsThird(lo, hi, a, b) ==
    LET c_1 == RDiv(RAdd(RMul(R(2), a), b), R(3))
        c_2 == RDiv(RAdd(a, RMul(R(2), b)), R(3))
    IN  <<lo, hi>> \in { <<a, c_1>>, <<c_1, c_2>>, <<c_2, b>> }

\* C29: a call of trisection_method_demo ends with a return or with
\* IntervalError; the series a_n and b_n it recorded have the same length,
\* every entry is a number, and every bracket after the first is one of the
\* three thirds of the bracket before it, one on whose limits f_x takes
\* values of strictly opposite sign.
C29_TrisectionDemoSeries ==
    LET o == Out("demo.trisection_method_demo")
    IN  (call.made /\ o # NotCalled /\ call.nb_iteration >= 2) =>
            /\ o.raised \in {"none", "IntervalError"}
            /\ o.raised = "none" =>
                   /\ Len(o.a_n) = Len(o.b_n)
                   /\ \A k \in 1..Len(o.a_n) : IsFloat(o.a_n[k])
                   /\ \A k \in 1..Len(o.b_n) : IsFloat(o.b_n[k])
                   /\ \A k \in 1..(Len(o.a_n) - 1) :
                          /\ IsThird(o.a_n[k + 1], o.b_n[k + 1], o.a_n[k], o.b_n[k])
                          /\ SignProduct(call.f_x, o.a_n[k + 1], o.b_n[k + 1]) < 0

\* what bisection_method of root_finding_methods_expert_cpp yields on the
\* arguments the instance was constructed with
SameCallOfFunction ==
    bisection_method("expert_cpp", f_x, given[1], given[2], nb_iteration,
                     tolerance)

\* C30: once the constructor of a BisectionSolverClass instance has raised
\* or its first solve() is over, the call of the function based
\* bisection_method on the same arguments fails if and only if the instance
\* failed, and otherwise returns the same count, having reached the same
\* limits.
C30_BisectionsAgree ==
    (cls = "BisectionSolverClass" /\ FirstRunOver) =>
        /\ (pc = "raised") = (SameCallOfFunction.raised # "none")
        /\ pc = "returned" =>
               /\ SameCallOfFunction.iterations = result.iterations
               /\ Last(SameCallOfFunction.a_n) = a_n
               /\ Last(SameCallOfFunction.b_n) = b_n

====
